---- MODULE Spec2Model ----
(***************************************************************************)
(* Model of src/hooks/useKeyboard.ts: the useKeyboard hook (a keyboard     *)
(* listener bound to an element or to the document for the lifetime of a   *)
(* component) and the usePosition hook (popup placement from the bounding  *)
(* box of a referenced node against the viewport).                         *)
(*                                                                         *)
(* A hook instance is a component instance that calls the hook.  One       *)
(* render of the component together with the commit of its effects is one  *)
(* step: React runs the effect cleanup and the effect body of one commit   *)
(* back to back, with no native event handled in between.                  *)
(***************************************************************************)
EXTENDS Integers, Sequences, FiniteSets, TLC

(***************************************************************************)
(* Bounds and input sets                                                   *)
(***************************************************************************)
\* Function objects a binder instance can hold at one time (identities of
\* the closures useCallback creates).
MaxHandlers == 3

\* Largest coordinate of a bounding box or of the viewport.
MaxCoord == 1

Binders == {1, 2}

\* Values of TKeyboardKey the binders are configured with.
Keys == {"Enter", "Escape"}

\* Key strings a native event can carry: the configured ones and one outside
\* of TKeyboardKey.
EventKeys == Keys \cup {"a"}

TKeyboardEvent == {"keydown", "keypress", "keyup"}

\* Callbacks a component can pass as `listener`.
Listeners == {"L1", "L2"}

\* RefObjects a component can pass as options.ref; NoRef is `undefined`.
NoRef == "undefined"
Refs == {"R1", "R2"}

\* DOM nodes a RefObject's current can hold; Null is `null`.
Null == "null"
Nodes == {"A", "B"}

Document == "document"
EventTargets == Nodes \cup {Document}

HandlerIds == 1 .. MaxHandlers

\* Values of the hook state of a component that is not mounted.
None == [none |-> TRUE]

VARIABLES
    mounted,       \* mounted[b]: the component calling useKeyboard is mounted
    props,         \* props[b]: arguments of the latest useKeyboard call
    eventHandler,  \* eventHandler[b]: the memoised closure of useCallback
    effectDeps,    \* effectDeps[b]: dependency array of the committed effect
    cleanup,       \* cleanup[b]: what the effect's returned closure captured
    current,       \* current[r]: ref.current of RefObject r
    listeners,     \* listeners registered on the event targets of the DOM
    calls,         \* add/removeEventListener calls of the latest step, in order
    changed,       \* the dependencies of the effect the latest re-render changed
    keyed,         \* keyed[b]: listener and preventDefault passed at the latest
                   \* render of b that changed key (or at mount)
    dispatched,    \* the latest dispatched native event, after dispatch
    invoked,       \* invoked[b][l]: calls of callback l of binder b made by it
    passed         \* the arguments those calls were made with

kbVars == <<mounted, props, eventHandler, effectDeps, cleanup, current,
            listeners, calls, changed, keyed, dispatched, invoked,
            passed>>

VARIABLES
    posMounted,    \* the component calling usePosition is mounted
    posRef,        \* the RefObject passed to the latest usePosition call
    posDeps,       \* dependency array [ref] of the committed effect
    position,      \* the useState value the hook returns
    popup,         \* popup[r]: ref.current of RefObject r
    rect,          \* bounding box the page's layout gives the popup element
    viewport,      \* window.innerWidth and window.innerHeight
    measuredFrom,  \* the node `position` was computed from; Null: the default
    pass,          \* the latest step: "idle" (no render), or a commit whose
                   \* effect was "skipped", found the node "absent", or "measured"
    again          \* the latest step measured the node the step before it had
                   \* measured, with nothing changed in between

posVars == <<posMounted, posRef, posDeps, position, measuredFrom, popup, rect,
             viewport, pass, again>>

vars == <<kbVars, posVars>>

NoInvocation == [b \in Binders |-> [l \in Listeners |-> 0]]

(***************************************************************************)
(* useKeyboard                                                             *)
(***************************************************************************)
\* The closure (e) => { if (e.key === key) {...} } with what it captured.
NewHandler(b, id, p) ==
    [owner |-> b, id |-> id, key |-> p.key,
     preventDefault |-> p.preventDefault, listener |-> p.listener]

\* Function objects of binder b that are still referenced.
LiveIds(b) ==
    {h.id : h \in {x.handler : x \in {y \in listeners : y.handler.owner = b}}}
      \cup (IF mounted[b] THEN {eventHandler[b].id, cleanup[b].handler.id} ELSE {})

\* A function object is a new identity: none that is still referenced.
FreshId(b) == CHOOSE i \in HandlerIds \ LiveIds(b) :
                  \A j \in HandlerIds \ LiveIds(b) : i <= j

\* useCallback(fn) without a dependency array: a new closure every render.
UseCallbackEveryRender(b, p) == NewHandler(b, FreshId(b), p)

\* useCallback(fn, []): the closure of the first render, for good.
UseCallbackOnce(b, p) ==
    IF ~mounted[b] THEN NewHandler(b, FreshId(b), p) ELSE eventHandler[b]

\* useCallback(fn, [key]): on mount, or when key differs from the key of the
\* previous render, the new closure; else the memoised one.
UseCallback(b, p) ==
    IF ~mounted[b] \/ props[b].key # p.key
    THEN NewHandler(b, FreshId(b), p)
    ELSE eventHandler[b]

\* The target without the ref: always the document.
ResolveTargetDocument(ref) == Document

\* const target = ref?.current || document
ResolveTarget(ref) ==
    IF ref # NoRef /\ current[ref] # Null THEN current[ref] ELSE Document

\* A dependency array that leaves the event type out.
DepsWithoutEvent(p, h) ==
    [event |-> "untracked", eventHandler |-> h, ref |-> p.ref]

\* A dependency array that lists the callback as well.
DepsWithListener(p, h) ==
    [event |-> p.event, eventHandler |-> h, ref |-> p.ref,
     listener |-> p.listener]

\* The dependency array [event, eventHandler, ref].
Deps(p, h) == [event |-> p.event, eventHandler |-> h, ref |-> p.ref]

\* target.addEventListener(event, eventHandler): a listener already registered
\* with the same type and the same function is not registered twice.
AddEventListener(reg, target, type, h) ==
    reg \cup {[target |-> target, type |-> type, handler |-> h]}

\* A removal that drops every listener of the type on the target, whatever
\* its function.
RemoveEveryListener(reg, target, type, h) ==
    {x \in reg : ~(x.target = target /\ x.type = type)}

\* target.removeEventListener(event, eventHandler)
RemoveEventListener(reg, target, type, h) ==
    reg \ {[target |-> target, type |-> type, handler |-> h]}

\* The effect body: resolve the target, register, return the cleanup closure.
EffectSetup(reg, p, h) ==
    LET target == ResolveTarget(p.ref) IN
    [listeners |-> AddEventListener(reg, target, p.event, h),
     cleanup   |-> [target |-> target, event |-> p.event, handler |-> h]]

\* An effect that returns no cleanup.
EffectCleanupMissing(reg, c) == reg

\* A cleanup that reads ref.current again instead of the captured target.
EffectCleanupLiveTarget(reg, c) ==
    RemoveEventListener(reg, ResolveTarget(props[c.handler.owner].ref),
                        c.event, c.handler)

\* The cleanup closure: remove from the captured target, with the captured
\* event type and function.
EffectCleanup(reg, c) ==
    RemoveEventListener(reg, c.target, c.event, c.handler)

\* A commit that runs the body before the cleanup of the previous effect.
RebindSetupFirst(reg, c, p, h) ==
    LET up == EffectSetup(reg, p, h) IN
    [listeners |-> EffectCleanup(up.listeners, c), cleanup |-> up.cleanup]

\* Commit of a re-render whose dependencies changed: cleanup, then the body.
Rebind(reg, c, p, h) == EffectSetup(EffectCleanup(reg, c), p, h)

\* An addEventListener ("add") or removeEventListener ("remove") call made by
\* the effect of binder b.
CallBy(b, op) == [by |-> b, op |-> op]

PropsOf(k, l, pd, ev, r) ==
    [key |-> k, listener |-> l, preventDefault |-> pd, event |-> ev, ref |-> r]

\* The entries of the dependency array that differ from the committed ones.
ChangedDeps(old, new) == {d \in DOMAIN new : new[d] # old[d]}

\* The callback and the preventDefault option of one call of the hook.
Passed(p) == [listener |-> p.listener, preventDefault |-> p.preventDefault]

\* First render of a component calling useKeyboard(k, l, {ev, pd, r}).
Mount(b, p) ==
    /\ dispatched = None
    /\ ~mounted[b]
    /\ HandlerIds \ LiveIds(b) # {}
    /\ LET h  == UseCallback(b, p)
           up == EffectSetup(listeners, p, h)
       IN  /\ mounted' = [mounted EXCEPT ![b] = TRUE]
           /\ props' = [props EXCEPT ![b] = p]
           /\ eventHandler' = [eventHandler EXCEPT ![b] = h]
           /\ effectDeps' = [effectDeps EXCEPT ![b] = Deps(p, h)]
           /\ cleanup' = [cleanup EXCEPT ![b] = up.cleanup]
           /\ listeners' = up.listeners
           /\ calls' = <<CallBy(b, "add")>>
           /\ changed' = {}
           /\ keyed' = [keyed EXCEPT ![b] = Passed(p)]
    /\ dispatched' = None
    /\ invoked' = NoInvocation
    /\ passed' = {}
    /\ UNCHANGED current
    /\ UNCHANGED posVars

\* Re-render of a mounted component with new arguments, and its commit.
Rerender(b, p) ==
    /\ dispatched = None
    /\ mounted[b]
    /\ HandlerIds \ LiveIds(b) # {}
    /\ LET h == UseCallback(b, p) IN
       /\ props' = [props EXCEPT ![b] = p]
       /\ eventHandler' = [eventHandler EXCEPT ![b] = h]
       /\ keyed' = IF p.key # props[b].key
                   THEN [keyed EXCEPT ![b] = Passed(p)] ELSE keyed
       /\ IF Deps(p, h) # effectDeps[b]
          THEN LET re == Rebind(listeners, cleanup[b], p, h) IN
               /\ effectDeps' = [effectDeps EXCEPT ![b] = Deps(p, h)]
               /\ cleanup' = [cleanup EXCEPT ![b] = re.cleanup]
               /\ listeners' = re.listeners
               /\ calls' = <<CallBy(b, "remove"), CallBy(b, "add")>>
               /\ changed' = ChangedDeps(effectDeps[b], Deps(p, h))
          ELSE /\ calls' = <<>>
               /\ changed' = {}
               /\ UNCHANGED <<effectDeps, cleanup, listeners>>
    /\ dispatched' = None
    /\ invoked' = NoInvocation
    /\ passed' = {}
    /\ UNCHANGED <<mounted, current>>
    /\ UNCHANGED posVars

\* Unmount: React runs the cleanup of the committed effect.
Unmount(b) ==
    /\ dispatched = None
    /\ mounted[b]
    /\ listeners' = EffectCleanup(listeners, cleanup[b])
    /\ calls' = <<CallBy(b, "remove")>>
    /\ changed' = {}
    /\ mounted' = [mounted EXCEPT ![b] = FALSE]
    /\ props' = [props EXCEPT ![b] = None]
    /\ eventHandler' = [eventHandler EXCEPT ![b] = None]
    /\ effectDeps' = [effectDeps EXCEPT ![b] = None]
    /\ cleanup' = [cleanup EXCEPT ![b] = None]
    /\ keyed' = [keyed EXCEPT ![b] = None]
    /\ dispatched' = None
    /\ invoked' = NoInvocation
    /\ passed' = {}
    /\ UNCHANGED current
    /\ UNCHANGED posVars

\* React (or the component) points ref.current at another node, or at null.
SetCurrent(r, n) ==
    /\ dispatched = None
    /\ current[r] # n
    /\ current' = [current EXCEPT ![r] = n]
    /\ calls' = <<>>
    /\ changed' = {}
    /\ dispatched' = None
    /\ invoked' = NoInvocation
    /\ passed' = {}
    /\ UNCHANGED <<mounted, props, eventHandler, effectDeps, cleanup, listeners,
                   keyed>>
    /\ UNCHANGED posVars

(***************************************************************************)
(* Native events                                                           *)
(***************************************************************************)
\* A native keyboard event bubbles: the listeners of the node it is
\* dispatched on run, then those of the document.
Path(target) == IF target = Document THEN {Document} ELSE {target, Document}

\* Registered listeners a dispatch of (type, target) runs.
Notified(type, target) ==
    {x \in listeners : x.type = type /\ x.target \in Path(target)}

\* The handler without its key test.
MatchesAnyKey(h, key) == TRUE

\* if (e.key === key)
Matches(h, key) == key = h.key

\* e.preventDefault() ahead of the key test.
PreventsAnyKey(h, key) == h.preventDefault

\* preventDefault && e.preventDefault()
Prevents(h, key) == Matches(h, key) /\ h.preventDefault

\* listener(e): the calls of callback l of binder b one dispatch makes.
Invocations(type, key, target, b, l) ==
    Cardinality({x \in Notified(type, target) :
                    /\ x.handler.owner = b
                    /\ x.handler.listener = l
                    /\ Matches(x.handler, key)})

\* The event object of a dispatch, as the listeners receive it.
EventOf(type, key, target) == [type |-> type, key |-> key, target |-> target]

\* listener(e): the handler hands the event it received to the callback.
Argument(h, e) == e

\* The browser dispatches a cancelable native event of `type` with `key` on
\* `target`.
Dispatch(type, key, target) ==
    /\ dispatched = None
    /\ dispatched' =
          [type |-> type, key |-> key, target |-> target,
           defaultPrevented |->
              \E x \in Notified(type, target) : Prevents(x.handler, key)]
    /\ invoked' = [b \in Binders |-> [l \in Listeners |->
                      Invocations(type, key, target, b, l)]]
    /\ passed' = {Argument(x.handler, EventOf(type, key, target)) :
                     x \in {y \in Notified(type, target) :
                               Matches(y.handler, key)}}
    /\ calls' = <<>>
    /\ changed' = {}
    /\ UNCHANGED <<mounted, props, eventHandler, effectDeps, cleanup, current,
                   listeners, keyed>>
    /\ UNCHANGED posVars

\* The dispatch returns: the event loop goes on to its next task.
Handled ==
    /\ dispatched # None
    /\ dispatched' = None
    /\ invoked' = NoInvocation
    /\ passed' = {}
    /\ calls' = <<>>
    /\ changed' = {}
    /\ UNCHANGED <<mounted, props, eventHandler, effectDeps, cleanup, current,
                   listeners, keyed>>
    /\ UNCHANGED posVars

(***************************************************************************)
(* usePosition                                                             *)
(***************************************************************************)
PosRefs == {"P1", "P2"}

Coords == 0 .. MaxCoord

Boxes == [right : Coords, bottom : Coords, width : Coords, height : Coords]

Viewports == [innerWidth : Coords, innerHeight : Coords]

\* useState<TPosition>(["right", "bottom"])
DefaultPosition == <<"right", "bottom">>

\* The horizontal rule with a strict comparison.
AlignStrict(box, win) ==
    IF win.innerWidth - box.right < box.width THEN "left" ELSE "right"

\* if (spaceOnRight <= popup.width) align = "left", with
\* spaceOnRight = window.innerWidth - popup.right
Align(box, win) ==
    IF win.innerWidth - box.right <= box.width THEN "left" ELSE "right"

\* if (spaceOnBottom <= popup.height) side = "top", with
\* spaceOnBottom = window.innerHeight - popup.bottom
Side(box, win) ==
    IF win.innerHeight - box.bottom <= box.height THEN "top" ELSE "bottom"

\* An effect body that flips the current result instead of starting from
\* right and bottom.
MeasureFromCurrent(pos, node, box, win) ==
    IF node # Null
    THEN <<IF win.innerWidth - box.right <= box.width
           THEN (IF pos[1] = "right" THEN "left" ELSE "right") ELSE pos[1],
           IF win.innerHeight - box.bottom <= box.height
           THEN (IF pos[2] = "bottom" THEN "top" ELSE "bottom") ELSE pos[2]>>
    ELSE pos

\* An effect body that falls back to the default when the node is absent.
MeasureResetsWhenAbsent(pos, node, box, win) ==
    IF node # Null THEN <<Align(box, win), Side(box, win)>> ELSE DefaultPosition

\* The effect body: if (ref.current) { ...; setPosition([align, side]) }
Measure(pos, node, box, win) ==
    IF node # Null THEN <<Align(box, win), Side(box, win)>> ELSE pos

PassOf(node) == IF node # Null THEN "measured" ELSE "absent"

\* First render of a component calling usePosition(ref), and its commit.
PosMount(ref) ==
    /\ ~posMounted
    /\ posMounted' = TRUE
    /\ posRef' = ref
    /\ posDeps' = ref
    /\ position' = Measure(DefaultPosition, popup[ref], rect, viewport)
    /\ measuredFrom' = popup[ref]
    /\ pass' = PassOf(popup[ref])
    /\ again' = FALSE
    /\ UNCHANGED <<popup, rect, viewport>>
    /\ UNCHANGED kbVars

\* An effect without a dependency array: it runs after every render.
PosDepsChangedAlways(ref) == TRUE

\* The dependency array [ref] against that of the committed effect.
PosDepsChanged(ref) == ref # posDeps

\* Re-render with the RefObject `ref`: the effect runs when [ref] changed.
PosRerender(ref) ==
    /\ posMounted
    /\ posRef' = ref
    /\ IF PosDepsChanged(ref)
       THEN /\ posDeps' = ref
            /\ position' = Measure(position, popup[ref], rect, viewport)
            /\ measuredFrom' = IF popup[ref] # Null THEN popup[ref] ELSE measuredFrom
            /\ pass' = PassOf(popup[ref])
            /\ again' = (pass = "measured" /\ popup[ref] = measuredFrom)
       ELSE /\ pass' = "skipped"
            /\ again' = FALSE
            /\ UNCHANGED <<posDeps, position, measuredFrom>>
    /\ UNCHANGED <<posMounted, popup, rect, viewport>>
    /\ UNCHANGED kbVars

\* Unmount: the hook state is dropped; the effect has no cleanup.
PosUnmount ==
    /\ posMounted
    /\ posMounted' = FALSE
    /\ posRef' = Null
    /\ posDeps' = Null
    /\ position' = DefaultPosition
    /\ measuredFrom' = Null
    /\ pass' = "idle"
    /\ again' = FALSE
    /\ UNCHANGED <<popup, rect, viewport>>
    /\ UNCHANGED kbVars

\* The popup element n is rendered with RefObject r: React sets r.current
\* (one popup element is in the document at a time).
AttachPopup(r, n) ==
    /\ popup[r] # n
    /\ \A q \in PosRefs \ {r} : popup[q] \in {Null, n}
    /\ popup' = [popup EXCEPT ![r] = n]
    /\ pass' = "idle"
    /\ again' = FALSE
    /\ UNCHANGED <<posMounted, posRef, posDeps, position, measuredFrom, rect,
                   viewport>>
    /\ UNCHANGED kbVars

\* The popup element leaves the document: React sets r.current to null.
DetachPopup(r) ==
    /\ popup[r] # Null
    /\ popup' = [popup EXCEPT ![r] = Null]
    /\ pass' = "idle"
    /\ again' = FALSE
    /\ UNCHANGED <<posMounted, posRef, posDeps, position, measuredFrom, rect,
                   viewport>>
    /\ UNCHANGED kbVars

\* The boxes one edge or one dimension away from box, and the viewports one
\* dimension away from win.
Moved(box) ==
    {b \in Boxes : Cardinality({f \in DOMAIN box : b[f] # box[f]}) = 1}

Resized(win) ==
    {w \in Viewports : Cardinality({f \in DOMAIN win : w[f] # win[f]}) = 1}

\* Layout or scrolling moves or resizes the box of the popup element.
Reflow(box) ==
    /\ box # rect
    /\ rect' = box
    /\ pass' = "idle"
    /\ again' = FALSE
    /\ UNCHANGED <<posMounted, posRef, posDeps, position, measuredFrom, popup, viewport>>
    /\ UNCHANGED kbVars

\* The window is resized.
Resize(win) ==
    /\ win # viewport
    /\ viewport' = win
    /\ pass' = "idle"
    /\ again' = FALSE
    /\ UNCHANGED <<posMounted, posRef, posDeps, position, measuredFrom, popup, rect>>
    /\ UNCHANGED kbVars

(***************************************************************************)
(* Specification of one binder instance                                    *)
(***************************************************************************)
AllProps ==
    {PropsOf(k, l, pd, ev, r) :
        k \in Keys, l \in Listeners, pd \in BOOLEAN, ev \in TKeyboardEvent,
        r \in Refs \cup {NoRef}}

Solo == 1

KbIdle ==
    /\ mounted = [b \in Binders |-> FALSE]
    /\ props = [b \in Binders |-> None]
    /\ eventHandler = [b \in Binders |-> None]
    /\ effectDeps = [b \in Binders |-> None]
    /\ cleanup = [b \in Binders |-> None]
    /\ listeners = {}
    /\ calls = <<>>
    /\ changed = {}
    /\ keyed = [b \in Binders |-> None]
    /\ dispatched = None
    /\ invoked = NoInvocation
    /\ passed = {}

PosIdle ==
    /\ posMounted = FALSE
    /\ posRef = Null
    /\ posDeps = Null
    /\ position = DefaultPosition
    /\ measuredFrom = Null
    /\ popup = [r \in PosRefs |-> Null]
    /\ pass = "idle"
    /\ again = FALSE

Init ==
    /\ KbIdle
    /\ current \in [Refs -> Nodes \cup {Null}]
    /\ PosIdle
    /\ rect = [right |-> 0, bottom |-> 0, width |-> 0, height |-> 0]
    /\ viewport = [innerWidth |-> 0, innerHeight |-> 0]

Next ==
    \/ \E p \in AllProps : Mount(Solo, p)
    \/ \E p \in AllProps : Rerender(Solo, p)
    \/ Unmount(Solo)
    \/ \E r \in Refs, n \in Nodes \cup {Null} : SetCurrent(r, n)
    \/ \E type \in TKeyboardEvent, key \in EventKeys, target \in EventTargets :
          Dispatch(type, key, target)
    \/ Handled

Spec == Init /\ [][Next]_vars

(***************************************************************************)
(* Specification of two binder instances mounted side by side              *)
(***************************************************************************)
TwoEvents == {"keydown", "keyup"}

TwoRefs == {"R1"}

TwoNodes == {"A"}

TwoProps ==
    {PropsOf(k, "L1", TRUE, ev, r) :
        k \in Keys, ev \in TwoEvents, r \in TwoRefs \cup {NoRef}}

InitTwo ==
    /\ KbIdle
    /\ current \in {c \in [Refs -> TwoNodes \cup {Null}] :
                       \A r \in Refs \ TwoRefs : c[r] = Null}
    /\ PosIdle
    /\ rect = [right |-> 0, bottom |-> 0, width |-> 0, height |-> 0]
    /\ viewport = [innerWidth |-> 0, innerHeight |-> 0]

NextTwo ==
    \/ \E b \in Binders, p \in TwoProps : Mount(b, p)
    \/ \E b \in Binders, p \in TwoProps : Rerender(b, p)
    \/ \E b \in Binders : Unmount(b)
    \/ \E r \in TwoRefs, n \in TwoNodes \cup {Null} : SetCurrent(r, n)
    \/ \E type \in TwoEvents, key \in Keys, target \in TwoNodes \cup {Document} :
          Dispatch(type, key, target)
    \/ Handled

SpecTwo == InitTwo /\ [][NextTwo]_vars

(***************************************************************************)
(* Specification of one usePosition instance                               *)
(***************************************************************************)
InitPosition ==
    /\ KbIdle
    /\ current = [r \in Refs |-> Null]
    /\ PosIdle
    /\ rect \in Boxes
    /\ viewport \in Viewports

NextPosition ==
    \/ \E ref \in PosRefs : PosMount(ref)
    \/ \E ref \in PosRefs : PosRerender(ref)
    \/ PosUnmount
    \/ \E r \in PosRefs, n \in Nodes : AttachPopup(r, n)
    \/ \E r \in PosRefs : DetachPopup(r)
    \/ \E box \in Moved(rect) : Reflow(box)
    \/ \E win \in Resized(viewport) : Resize(win)

SpecPosition == InitPosition /\ [][NextPosition]_vars

(***************************************************************************)
(* Properties of useKeyboard, checked under Spec                           *)
(***************************************************************************)
RECURSIVE SumOver(_, _)
SumOver(f, S) ==
    IF S = {} THEN 0
    ELSE LET x == CHOOSE y \in S : TRUE IN f[x] + SumOver(f, S \ {x})

\* Callback invocations binder b made for the dispatched event.
CallsOf(b) == SumOver(invoked[b], Listeners)

\* Listeners registered with a function of binder b.
OwnedBy(b) == {x \in listeners : x.handler.owner = b}

\* The registration the committed effect of binder b made.
Installed(b) ==
    [target |-> cleanup[b].target, type |-> cleanup[b].event,
     handler |-> cleanup[b].handler]

\* The dispatched event has the phase of binder b and was dispatched on the
\* target its listener was added to.
OnSubscribedTarget(b) ==
    /\ dispatched # None
    /\ mounted[b]
    /\ dispatched.type = props[b].event
    /\ dispatched.target = cleanup[b].target

Did(b, op) == \E i \in DOMAIN calls : calls[i] = CallBy(b, op)

\* C1: an event of the binder's phase dispatched on the subscribed target
\* invokes a callback of the binder exactly once when its key equals the
\* binder's key, and zero times when it differs (a key outside of
\* TKeyboardKey included).
C1_MatchFiresOnce ==
    \A b \in Binders :
        OnSubscribedTarget(b) =>
            CallsOf(b) = (IF dispatched.key = props[b].key THEN 1 ELSE 0)

C1_Witness ==
    /\ OnSubscribedTarget(Solo)
    /\ dispatched.type = "keyup"
    /\ dispatched.target \in Nodes
    /\ dispatched.key = props[Solo].key
    /\ CallsOf(Solo) = 1

\* C2: once the component is unmounted no listener of the binder is left on
\* any target, and a dispatched event invokes none of its callbacks.
C2_NoListenerAfterUnmount ==
    \A b \in Binders :
        ~mounted[b] => /\ OwnedBy(b) = {}
                       /\ dispatched # None => CallsOf(b) = 0

C2_Witness ==
    /\ ~mounted[Solo]
    /\ Did(Solo, "remove")
    /\ \E r \in Refs : current[r] # Null

\* C3: a matching event on the node the binder's ref resolves to invokes the
\* callback once, and a matching event on another node invokes it zero
\* times, also after ref.current changed from the node the listener was
\* added to.
C3_FollowsRefCurrent ==
    \A b \in Binders :
        ( /\ mounted[b]
          /\ dispatched # None
          /\ cleanup[b].target \in Nodes
          /\ props[b].ref # NoRef
          /\ current[props[b].ref] \in Nodes
          /\ dispatched.type = props[b].event
          /\ dispatched.key = props[b].key
          /\ dispatched.target \in Nodes )
        => CallsOf(b) =
              (IF dispatched.target = current[props[b].ref] THEN 1 ELSE 0)

\* C4: a matching event invokes the callback of the latest render, and no
\* earlier one.
C4_LatestCallback ==
    \A b \in Binders :
        (OnSubscribedTarget(b) /\ dispatched.key = props[b].key) =>
            \A l \in Listeners :
                invoked[b][l] = (IF l = props[b].listener THEN 1 ELSE 0)

\* C5: after a matching event the default-prevented flag equals the
\* preventDefault option of the latest render.
C5_LatestPreventDefault ==
    \A b \in Binders :
        (OnSubscribedTarget(b) /\ dispatched.key = props[b].key) =>
            dispatched.defaultPrevented = props[b].preventDefault

\* C6: a binder holds exactly one registered listener while mounted and none
\* otherwise, so that no event invokes its callback twice.
C6_OneSubscription ==
    \A b \in Binders :
        /\ Cardinality(OwnedBy(b)) = (IF mounted[b] THEN 1 ELSE 0)
        /\ dispatched # None => CallsOf(b) <= 1

C6_Witness ==
    /\ mounted[Solo]
    /\ calls = <<CallBy(Solo, "remove"), CallBy(Solo, "add")>>
    /\ Cardinality(OwnedBy(Solo)) = 1

\* C7: the removal of a re-bind or of the unmount is addressed to the
\* registration the previous effect made (same target, same event type,
\* same function), whatever ref.current, key and event are by then: it is
\* the only removal of the step, and it leaves no listener of the binder
\* but the one the step itself adds.
C7_RemovalMatchesInstall ==
    [][\A b \in Binders :
          Did(b, "remove")' =>
              /\ Installed(b) \in listeners
              /\ Cardinality({i \in DOMAIN calls' :
                                 calls'[i] = CallBy(b, "remove")}) = 1
              /\ OwnedBy(b)' = (IF mounted'[b] THEN {Installed(b)'} ELSE {})
      ]_vars

C7_Witness ==
    /\ mounted[Solo]
    /\ Did(Solo, "remove")
    /\ props[Solo].ref # NoRef
    /\ cleanup[Solo].target = Document
    /\ OwnedBy(Solo) = {Installed(Solo)}

\* C8: an effect that adds a listener adds it to the node ref.current holds
\* and not to the document; without a ref, or with ref.current null, it
\* adds it to the document.
C8_TargetResolution ==
    \A b \in Binders :
        Did(b, "add") =>
            LET ref  == props[b].ref
                node == IF ref = NoRef THEN Null ELSE current[ref]
            IN  /\ node \in Nodes =>
                      /\ \E x \in OwnedBy(b) : x.target = node
                      /\ \A x \in OwnedBy(b) : x.target # Document
                /\ node = Null => \A x \in OwnedBy(b) : x.target = Document

C8_Witness ==
    /\ Did(Solo, "add")
    /\ props[Solo].ref # NoRef
    /\ current[props[Solo].ref] \in Nodes
    /\ \E x \in OwnedBy(Solo) : x.target = current[props[Solo].ref]

\* A re-render of binder b that changes the key and keeps event and ref.
KeyAloneChanges(b) ==
    /\ mounted[b] /\ mounted'[b]
    /\ props'[b].key # props[b].key
    /\ props'[b].event = props[b].event
    /\ props'[b].ref = props[b].ref

\* C13 as stated: a re-render that changes the key alone makes no
\* removeEventListener or addEventListener call and keeps the subscription.
C13_KeyChangeKeepsSubscription ==
    [][\A b \in Binders :
          KeyAloneChanges(b) => (calls' = <<>> /\ listeners' = listeners)]_vars

\* C13 as amended: a re-render that changes the key alone creates a new
\* handler and re-subscribes, one removal then one add, and the new
\* subscription is the only one of the binder and tests the new key.
C13_KeyChangeRebinds ==
    [][\A b \in Binders :
          KeyAloneChanges(b) =>
              /\ calls' = <<CallBy(b, "remove"), CallBy(b, "add")>>
              /\ changed' = {"eventHandler"}
              /\ Installed(b)' # Installed(b)
              /\ Installed(b) \notin listeners'
              /\ OwnedBy(b)' = {Installed(b)'}
              /\ Installed(b)'.handler.key = props'[b].key
              /\ Installed(b)'.type = props'[b].event
      ]_vars

C13_Witness ==
    /\ mounted[Solo]
    /\ changed = {"eventHandler"}
    /\ calls = <<CallBy(Solo, "remove"), CallBy(Solo, "add")>>
    /\ OwnedBy(Solo) = {Installed(Solo)}
    /\ Installed(Solo).handler.key = props[Solo].key

\* A re-render of binder b that keeps key, event and ref.
CallbackAloneChanges(b) ==
    /\ mounted[b] /\ mounted'[b]
    /\ props'[b] # props[b]
    /\ props'[b].key = props[b].key
    /\ props'[b].event = props[b].event
    /\ props'[b].ref = props[b].ref

\* C14: a re-render that changes only the callback and/or preventDefault
\* makes no addEventListener or removeEventListener call: the registered
\* listeners and the installed handler are as before.
C14_CallbackChangeKeepsSubscription ==
    [][\A b \in Binders :
          CallbackAloneChanges(b) =>
              /\ calls' = <<>>
              /\ listeners' = listeners
              /\ Installed(b)' = Installed(b)
              /\ eventHandler'[b] = eventHandler[b]
      ]_vars

C14_Witness ==
    /\ mounted[Solo]
    /\ calls = <<>>
    /\ dispatched = None
    /\ props[Solo].listener # eventHandler[Solo].listener
    /\ props[Solo].preventDefault # eventHandler[Solo].preventDefault
    /\ OwnedBy(Solo) = {Installed(Solo)}
    /\ Installed(Solo).handler = eventHandler[Solo]

\* C19: a matching event invokes the callback, and gets the preventDefault
\* setting, passed at the latest render that changed the key (or at mount);
\* what later renders with the same key passed is not used.
C19_ValuesOfLastKeyChange ==
    \A b \in Binders :
        (OnSubscribedTarget(b) /\ dispatched.key = props[b].key) =>
            /\ \A l \in Listeners :
                  invoked[b][l] = (IF l = keyed[b].listener THEN 1 ELSE 0)
            /\ dispatched.defaultPrevented = keyed[b].preventDefault

C19_Witness ==
    /\ OnSubscribedTarget(Solo)
    /\ dispatched.key = props[Solo].key
    /\ props[Solo].listener # keyed[Solo].listener
    /\ props[Solo].preventDefault # keyed[Solo].preventDefault
    /\ invoked[Solo][keyed[Solo].listener] = 1
    /\ invoked[Solo][props[Solo].listener] = 0

\* Callback invocations of binder b that an event (type, key) dispatched on
\* target would make, with the listeners as registered.
Fires(type, key, target, b) ==
    Cardinality({x \in Notified(type, target) :
                    x.handler.owner = b /\ Matches(x.handler, key)})

\* C15: when a re-render changes the event phase from P to Q and the
\* listener stays on the same target, the listener for P is removed and one
\* for Q is added: afterwards a matching event of phase P invokes the
\* callback zero times and one of phase Q once.
C15_PhaseChangeRebinds ==
    [][\A b \in Binders :
          ( /\ mounted[b] /\ mounted'[b]
            /\ props'[b].event # props[b].event
            /\ cleanup'[b].target = cleanup[b].target )
          => /\ calls' = <<CallBy(b, "remove"), CallBy(b, "add")>>
             /\ \A P \in TKeyboardEvent, Q \in TKeyboardEvent, k \in Keys,
                   t \in EventTargets :
                   ( /\ P = props[b].event /\ Q = props'[b].event
                     /\ k = props'[b].key /\ t = cleanup'[b].target )
                   => /\ Fires(P, k, t, b)' = 0
                      /\ Fires(Q, k, t, b)' = 1
      ]_vars

C15_Witness ==
    /\ mounted[Solo]
    /\ changed = {"event"}
    /\ calls = <<CallBy(Solo, "remove"), CallBy(Solo, "add")>>
    /\ props[Solo].ref = NoRef
    /\ Fires(props[Solo].event, props[Solo].key, Document, Solo) = 1
    /\ \A P \in TKeyboardEvent \ {props[Solo].event} :
          Fires(P, props[Solo].key, Document, Solo) = 0

\* C16: an event whose key differs from the binder's key gets no
\* preventDefault from it and invokes none of its callbacks; the flag is set
\* only for an event some mounted binder matches, and what a callback
\* receives is the dispatched event.
C16_OnlyMatchingEventsTouched ==
    dispatched # None =>
        /\ \A b \in Binders :
              (mounted[b] /\ dispatched.key # props[b].key) => CallsOf(b) = 0
        /\ dispatched.defaultPrevented =>
              \E b \in Binders :
                  mounted[b] /\ dispatched.key = props[b].key
        /\ passed \subseteq
              {EventOf(dispatched.type, dispatched.key, dispatched.target)}

C16_Witness ==
    /\ OnSubscribedTarget(Solo)
    /\ dispatched.key \in Keys \ {props[Solo].key}
    /\ eventHandler[Solo].preventDefault
    /\ ~dispatched.defaultPrevented
    /\ CallsOf(Solo) = 0
    /\ passed = {}

(***************************************************************************)
(* Properties of two binder instances, checked under SpecTwo               *)
(***************************************************************************)
\* C18: under any interleaving of the mounts, re-binds and unmounts of two
\* binders, each binder holds one listener while mounted and none otherwise,
\* a step of one binder leaves the listeners of the other as they were, and
\* a matching event invokes the callback of each mounted binder once.
C18_BindersIndependent ==
    [][\A b \in Binders :
          /\ Cardinality(OwnedBy(b)') = (IF mounted'[b] THEN 1 ELSE 0)
          /\ (\A i \in DOMAIN calls' : calls'[i].by # b) =>
                OwnedBy(b)' = OwnedBy(b)
          /\ OnSubscribedTarget(b)' =>
                CallsOf(b)' = (IF dispatched'.key = props'[b].key THEN 1 ELSE 0)
      ]_vars

C18_Witness ==
    /\ \A b \in Binders :
          /\ OnSubscribedTarget(b)
          /\ dispatched.key = props[b].key
          /\ CallsOf(b) = 1
    /\ dispatched.target = Document

(***************************************************************************)
(* Properties of usePosition, checked under SpecPosition                   *)
(***************************************************************************)
\* The node the RefObject of the latest render holds.
PopupNode == IF posMounted THEN popup[posRef] ELSE Null

\* C9: a pass that finds the node publishes alignment left iff
\* innerWidth - right <= width and side top iff innerHeight - bottom <=
\* height, each axis on its own.
C9_PlacementRule ==
    pass = "measured" =>
        /\ position[1] \in {"left", "right"}
        /\ position[2] \in {"top", "bottom"}
        /\ position[1] = "left" <=>
              viewport.innerWidth - rect.right <= rect.width
        /\ position[2] = "top" <=>
              viewport.innerHeight - rect.bottom <= rect.height

C9_Witness ==
    /\ pass = "measured"
    /\ viewport.innerWidth - rect.right = rect.width
    /\ viewport.innerHeight - rect.bottom > rect.height
    /\ position = <<"left", "bottom">>

\* C10: once a render has committed, the result is the placement of the
\* node the ref holds: it was measured from that node.
C10_MeasuredFromCurrentNode ==
    (posMounted /\ pass # "idle" /\ PopupNode # Null) =>
        measuredFrom = PopupNode

\* C11: a pass that finds the node absent leaves the result as it was (the
\* default on mount); the result is the default as long as no pass has found
\* a node, and it is kept when the node becomes absent.
C11_AbsentKeepsResult ==
    [][/\ measuredFrom = Null => position = DefaultPosition
       /\ measuredFrom' = Null => position' = DefaultPosition
       /\ pass' = "absent" =>
             /\ position' = (IF posMounted THEN position ELSE DefaultPosition)
             /\ measuredFrom' = (IF posMounted THEN measuredFrom ELSE Null)
       /\ (posMounted /\ popup' # popup) => position' = position
      ]_vars

C11_Witness ==
    /\ pass = "absent"
    /\ PopupNode = Null
    /\ measuredFrom # Null
    /\ position = <<"left", "top">>

\* C12: a pass that measures the node the pass before it measured, with
\* nothing changed in between, leaves the result as it was.
C12_Idempotent ==
    [][(posMounted /\ pass = "measured" /\ pass' = "measured"
          /\ PopupNode' = PopupNode)
       => position' = position]_vars

C12_Witness ==
    /\ again
    /\ pass = "measured"
    /\ position = <<"left", "bottom">>

\* C17: a change of the viewport or of the box of the node is no render and
\* leaves the result as it was, and so does a render with the RefObject of
\* the committed effect: no pass runs.
C17_NoPassWithoutRefChange ==
    [][/\ (posMounted /\ (rect' # rect \/ viewport' # viewport)) =>
             (pass' = "idle" /\ position' = position)
       /\ (posMounted /\ posMounted' /\ posRef' = posDeps) =>
             (pass' \in {"idle", "skipped"} /\ position' = position)
      ]_vars

C17_Witness ==
    /\ pass = "skipped"
    /\ PopupNode # Null
    /\ measuredFrom = PopupNode
    /\ position = <<"right", "bottom">>
    /\ viewport.innerWidth - rect.right <= rect.width
    /\ viewport.innerHeight - rect.bottom <= rect.height

====
